---- MODULE Spec2Model ----
(***************************************************************************)
(* A model of the aerospace-rules service: the shared ServiceState behind  *)
(* a tokio RwLock, its writers (refresh_state, refresh_config_only, the    *)
(* watcher's Remove arm), the per-connection handler handle_client, and    *)
(* the rule engine evaluate_rules_for_workspace.                           *)
(*                                                                         *)
(* Strings are sequences of atoms.  An atom is a one-character string      *)
(* (" ", "=", ">", "'", a digit) or an indivisible run of ordinary         *)
(* characters ("app-name", "Foo").  Splitting, trimming, prefix tests,     *)
(* containment and number parsing work on these sequences as the Rust      *)
(* string methods work on characters.                                      *)
(***************************************************************************)
EXTENDS Integers, Sequences, FiniteSets, TLC

(***************************************************************************)
(* Option and Result values                                                *)
(***************************************************************************)
None == [some |-> FALSE]

Some(v) == [some |-> TRUE, val |-> v]

Ok(v) == [ok |-> TRUE, val |-> v]

Err(e) == [ok |-> FALSE, err |-> e]

(***************************************************************************)
(* String helpers (str::contains, split, trim, trim_matches, starts_with,  *)
(* strip_prefix, parse::<u32>)                                             *)
(***************************************************************************)
Whitespace == {" ", "\t", "\n"}

Digits == {"0", "1", "2", "3", "4", "5", "6", "7", "8", "9"}

SepEq == <<" ", "=", " ">>

SepGt == <<" ", ">", " ">>

StartsWith(s, p) == Len(s) >= Len(p) /\ SubSeq(s, 1, Len(p)) = p

StripPrefix(s, p) == SubSeq(s, Len(p) + 1, Len(s))

Contains(s, p) == \E i \in 1..(Len(s) + 1) : StartsWith(SubSeq(s, i, Len(s)), p)

RECURSIVE Split(_, _)
\* str::split with a non-empty pattern: leftmost non-overlapping matches,
\* always at least one part.
Split(s, p) ==
    IF ~Contains(s, p) THEN <<s>>
    ELSE LET i == CHOOSE k \in 1..Len(s) :
                      /\ StartsWith(SubSeq(s, k, Len(s)), p)
                      /\ \A j \in 1..(k - 1) : ~StartsWith(SubSeq(s, j, Len(s)), p)
         IN <<SubSeq(s, 1, i - 1)>> \o Split(SubSeq(s, i + Len(p), Len(s)), p)

RECURSIVE TrimStartIn(_, _)
TrimStartIn(s, cs) == IF s # <<>> /\ Head(s) \in cs THEN TrimStartIn(Tail(s), cs) ELSE s

RECURSIVE TrimEndIn(_, _)
TrimEndIn(s, cs) ==
    IF s # <<>> /\ s[Len(s)] \in cs THEN TrimEndIn(SubSeq(s, 1, Len(s) - 1), cs) ELSE s

Trim(s) == TrimEndIn(TrimStartIn(s, Whitespace), Whitespace)

TrimMatches(s, c) == TrimEndIn(TrimStartIn(s, {c}), {c})

DigitVal(d) == CASE d = "0" -> 0 [] d = "1" -> 1 [] d = "2" -> 2 [] d = "3" -> 3
                 [] d = "4" -> 4 [] d = "5" -> 5 [] d = "6" -> 6 [] d = "7" -> 7
                 [] d = "8" -> 8 [] d = "9" -> 9

DigitOf(n) == CASE n = 0 -> "0" [] n = 1 -> "1" [] n = 2 -> "2" [] n = 3 -> "3"
                [] n = 4 -> "4" [] n = 5 -> "5" [] n = 6 -> "6" [] n = 7 -> "7"
                [] n = 8 -> "8" [] n = 9 -> "9"

\* A u32 is kept as its decimal digits without leading zeros (zero is the
\* empty sequence), so that the whole range 0 ..= u32::MAX is covered.
U32MaxDigits == <<"4", "2", "9", "4", "9", "6", "7", "2", "9", "5">>

RECURSIVE ToDigits(_)
ToDigits(n) == IF n = 0 THEN <<>> ELSE Append(ToDigits(n \div 10), DigitOf(n % 10))

\* a < b, for digit sequences without leading zeros
DigitsLess(a, b) ==
    \/ Len(a) < Len(b)
    \/ /\ Len(a) = Len(b)
       /\ \E i \in 1..Len(a) :
             /\ DigitVal(a[i]) < DigitVal(b[i])
             /\ \A j \in 1..(i - 1) : a[j] = b[j]

\* <u32 as FromStr>::from_str: an optional leading "+", then one or more
\* decimal digits, no whitespace, no overflow.
ParseU32(s) ==
    LET body == IF s # <<>> /\ Head(s) = "+" THEN Tail(s) ELSE s
    IN IF body = <<>> \/ \E i \in 1..Len(body) : body[i] \notin Digits
       THEN Err("ParseIntError")
       ELSE LET v == TrimStartIn(body, {"0"})
            IN IF DigitsLess(U32MaxDigits, v) THEN Err("ParseIntError") ELSE Ok(v)

(***************************************************************************)
(* rules.rs: matches_condition                                             *)
(***************************************************************************)
\* As matches_condition, with `window-id > n` also matching the id n.
matches_condition_NotStrict(condition, window) ==
    IF Contains(condition, SepEq) THEN
        LET parts == Split(condition, SepEq)
        IN IF Len(parts) # 2 THEN Err("Invalid condition format")
           ELSE LET field == Trim(parts[1])
                    value == TrimMatches(TrimMatches(Trim(parts[2]), "'"), "\"")
                IN CASE field \in {<<"app-id">>, <<"app-name">>} ->
                            Ok(window.app_name = value)
                     [] field = <<"window-title">> ->
                            Ok(Contains(window.window_title, value))
                     [] field = <<"workspace">> ->
                            Ok(window.workspace = value)
                     [] OTHER -> Err("Unknown field in condition")
    ELSE IF Contains(condition, SepGt) THEN
        LET parts == Split(condition, SepGt)
        IN IF Len(parts) # 2 THEN Err("Invalid condition format")
           ELSE LET field == Trim(parts[1])
                    value == ParseU32(Trim(parts[2]))
                IN IF ~value.ok THEN Err("ParseIntError")
                   ELSE CASE field = <<"window-width">> ->
                                 Ok(DigitsLess(value.val, ToDigits(1200)))
                          [] field = <<"window-id">> ->
                                 Ok(~DigitsLess(ToDigits(window.window_id), value.val))
                          [] OTHER -> Err("Unknown numeric field in condition")
    ELSE Err("Unsupported condition format")

matches_condition(condition, window) ==
    IF Contains(condition, SepEq) THEN
        LET parts == Split(condition, SepEq)
        IN IF Len(parts) # 2 THEN Err("Invalid condition format")
           ELSE LET field == Trim(parts[1])
                    value == TrimMatches(TrimMatches(Trim(parts[2]), "'"), "\"")
                IN CASE field \in {<<"app-id">>, <<"app-name">>} ->
                            Ok(window.app_name = value)
                     [] field = <<"window-title">> ->
                            Ok(Contains(window.window_title, value))
                     [] field = <<"workspace">> ->
                            Ok(window.workspace = value)
                     [] OTHER -> Err("Unknown field in condition")
    ELSE IF Contains(condition, SepGt) THEN
        LET parts == Split(condition, SepGt)
        IN IF Len(parts) # 2 THEN Err("Invalid condition format")
           ELSE LET field == Trim(parts[1])
                    value == ParseU32(Trim(parts[2]))
                IN IF ~value.ok THEN Err("ParseIntError")
                   ELSE CASE field = <<"window-width">> ->
                                 Ok(DigitsLess(value.val, ToDigits(1200)))
                          [] field = <<"window-id">> ->
                                 Ok(DigitsLess(value.val, ToDigits(window.window_id)))
                          [] OTHER -> Err("Unknown numeric field in condition")
    ELSE Err("Unsupported condition format")

(***************************************************************************)
(* rules.rs: execute_action, execute_empty_workspace_command               *)
(***************************************************************************)
\* The outcomes of std::process::Command::output(): the process could not be
\* spawned, it exited with a non-zero status, or it exited with status zero.
CmdOutcomes == {"success", "nonzero", "spawn_error"}

MovePrefix == <<"move-to-workspace", " ">>

\* The external command execute_action runs for `action`, or None for an
\* action it rejects as unknown without running anything.
action_command(action, window) ==
    IF StartsWith(action, MovePrefix)
    THEN Some([program |-> "aerospace",
               args |-> <<"move", "--window-id", window.window_id,
                          "--workspace", StripPrefix(action, MovePrefix)>>])
    ELSE IF action = <<"maximize">>
    THEN Some([program |-> "aerospace",
               args |-> <<"fullscreen", "--window-id", window.window_id>>])
    ELSE None

\* execute_action's result once its command has ended with `outcome`.
execute_action_result(outcome) ==
    IF outcome = "success" THEN Ok("unit") ELSE Err(outcome)

RECURSIVE ShlexScan(_, _, _, _, _)
\* shlex::split for input without backslashes and comments: whitespace
\* separates tokens, quotes group (and may produce an empty token), an
\* unterminated quote is a failure.
ShlexScan(rest, cur, inTok, quote, acc) ==
    IF rest = <<>> THEN
        IF quote # "" THEN None
        ELSE Some(IF inTok THEN Append(acc, cur) ELSE acc)
    ELSE LET c == Head(rest)
             r == Tail(rest)
         IN IF quote # "" THEN
                IF c = quote THEN ShlexScan(r, cur, TRUE, "", acc)
                ELSE ShlexScan(r, Append(cur, c), TRUE, quote, acc)
            ELSE IF c \in {"'", "\""} THEN ShlexScan(r, cur, TRUE, c, acc)
            ELSE IF c \in Whitespace THEN
                IF inTok THEN ShlexScan(r, <<>>, FALSE, "", Append(acc, cur))
                ELSE ShlexScan(r, cur, FALSE, "", acc)
            ELSE ShlexScan(r, Append(cur, c), TRUE, "", acc)

shlex_split(command) == ShlexScan(command, <<>>, FALSE, "", <<>>)

\* The external command execute_empty_workspace_command runs, or Err when
\* it fails before running anything.
empty_workspace_command(command) ==
    LET parts == shlex_split(command)
    IN IF ~parts.some THEN Err("Failed to parse command")
       ELSE IF parts.val = <<>> THEN Err("Empty command")
       ELSE Ok([program |-> Head(parts.val), args |-> Tail(parts.val)])

(***************************************************************************)
(* rules.rs: evaluate_rules_for_workspace, as a machine that stops at      *)
(* every external command                                                  *)
(***************************************************************************)
AppliedOutcome(rule, window) ==
    [kind |-> "Applied", rule |-> rule.name, app_name |-> window.app_name,
     window_id |-> window.window_id, action |-> rule.action]

FailedOutcome(rule, e) ==
    [kind |-> "Failed to execute empty workspace command", rule |-> rule.name,
     error |-> e]

ExecutedOutcome(rule) ==
    [kind |-> "Executed empty workspace rule", rule |-> rule.name,
     command |-> rule.command]

\* As evaluate_begin, evaluating the cached windows of the ServiceState.
evaluate_begin_UsesCachedWindows(workspace, windows, focused_workspace_windows, config) ==
    [workspace |-> workspace, windows |-> windows,
     rules |-> config.rules, ri |-> 1, wi |-> 1, actions_performed |-> <<>>,
     log |-> <<>>, pc |-> "loop", result |-> None]

\* The frame of one call: ri, wi are the positions of the two loops, log the
\* external commands started so far, pc is "loop", "exec_action",
\* "exec_command" or "done".
evaluate_begin(workspace, windows, focused_workspace_windows, config) ==
    [workspace |-> workspace, windows |-> focused_workspace_windows,
     rules |-> config.rules, ri |-> 1, wi |-> 1, actions_performed |-> <<>>,
     log |-> <<>>, pc |-> "loop", result |-> None]

NextWindow(f) == [f EXCEPT !.wi = f.wi + 1, !.pc = "loop"]

NextRule(f) == [f EXCEPT !.ri = f.ri + 1, !.wi = 1, !.pc = "loop"]

Return(f, r) == [f EXCEPT !.pc = "done", !.result = Some(r)]

\* What the caller does with a failed matches_condition (the `?` operator).
condition_failed(f, e) == Return(f, Err(e))

\* As window_rule_iter, with the condition of the rule checked even when
\* there is no window to match it against.
window_rule_iter_ChecksConditionFirst(f, rule) ==
    LET nobody == [app_name |-> <<>>, window_id |-> 0, window_title |-> <<>>,
                   workspace |-> f.workspace]
        checked == matches_condition(rule.condition, nobody)
    IN IF f.windows = <<>> /\ ~checked.ok THEN condition_failed(f, checked.err)
       ELSE IF f.windows = <<>> \/ f.wi > Len(f.windows) THEN NextRule(f)
       ELSE LET window == f.windows[f.wi]
                m == matches_condition(rule.condition, window)
            IN IF ~m.ok THEN condition_failed(f, m.err)
               ELSE IF ~m.val THEN NextWindow(f)
               ELSE LET cmd == action_command(rule.action, window)
                    IN IF ~cmd.some THEN NextWindow(f)
                       ELSE [f EXCEPT !.pc = "exec_action",
                                      !.log = Append(f.log, cmd.val)]

window_rule_iter(f, rule) ==
    IF f.windows = <<>> \/ f.wi > Len(f.windows) THEN NextRule(f)
    ELSE LET window == f.windows[f.wi]
             m == matches_condition(rule.condition, window)
         IN IF ~m.ok THEN condition_failed(f, m.err)
            ELSE IF ~m.val THEN NextWindow(f)
            ELSE LET cmd == action_command(rule.action, window)
                 IN IF ~cmd.some THEN NextWindow(f)
                    ELSE [f EXCEPT !.pc = "exec_action",
                                   !.log = Append(f.log, cmd.val)]

\* As empty_workspace_rule_iter, comparing the workspace ids after trimming.
empty_workspace_rule_iter_Trimmed(f, rule) ==
    IF f.windows = <<>> /\ Trim(rule.workspace) = Trim(f.workspace) THEN
        LET cmd == empty_workspace_command(rule.command)
        IN IF ~cmd.ok
           THEN NextRule([f EXCEPT !.actions_performed =
                              Append(f.actions_performed, FailedOutcome(rule, cmd.err))])
           ELSE [f EXCEPT !.pc = "exec_command", !.log = Append(f.log, cmd.val)]
    ELSE NextRule(f)

empty_workspace_rule_iter(f, rule) ==
    IF f.windows = <<>> /\ rule.workspace = f.workspace THEN
        LET cmd == empty_workspace_command(rule.command)
        IN IF ~cmd.ok
           THEN NextRule([f EXCEPT !.actions_performed =
                              Append(f.actions_performed, FailedOutcome(rule, cmd.err))])
           ELSE [f EXCEPT !.pc = "exec_command", !.log = Append(f.log, cmd.val)]
    ELSE NextRule(f)

\* One pass through the loop body at (ri, wi).
evaluate_iter(f) ==
    IF f.ri > Len(f.rules) THEN Return(f, Ok(f.actions_performed))
    ELSE LET rule == f.rules[f.ri]
         IN IF rule.type = "window" THEN window_rule_iter(f, rule)
            ELSE empty_workspace_rule_iter(f, rule)

\* As evaluate_resume, with a failed window action recorded as an outcome.
evaluate_resume_RecordsActionFailure(f, outcome) ==
    LET rule == f.rules[f.ri]
    IN IF f.pc = "exec_action" THEN
           IF execute_action_result(outcome).ok
           THEN NextWindow([f EXCEPT !.actions_performed =
                               Append(f.actions_performed,
                                      AppliedOutcome(rule, f.windows[f.wi]))])
           ELSE NextWindow([f EXCEPT !.actions_performed =
                               Append(f.actions_performed, FailedOutcome(rule, outcome))])
       ELSE IF outcome = "success"
            THEN NextRule([f EXCEPT !.actions_performed =
                              Append(f.actions_performed, ExecutedOutcome(rule))])
            ELSE NextRule([f EXCEPT !.actions_performed =
                              Append(f.actions_performed, FailedOutcome(rule, outcome))])

\* The external command in flight has ended with `outcome`.
evaluate_resume(f, outcome) ==
    LET rule == f.rules[f.ri]
    IN IF f.pc = "exec_action" THEN
           IF execute_action_result(outcome).ok
           THEN NextWindow([f EXCEPT !.actions_performed =
                               Append(f.actions_performed,
                                      AppliedOutcome(rule, f.windows[f.wi]))])
           ELSE NextWindow(f)
       ELSE IF outcome = "success"
            THEN NextRule([f EXCEPT !.actions_performed =
                              Append(f.actions_performed, ExecutedOutcome(rule))])
            ELSE NextRule([f EXCEPT !.actions_performed =
                              Append(f.actions_performed, FailedOutcome(rule, outcome))])

RECURSIVE evaluate_run(_)
\* Runs the loop up to the next external command or the return.
evaluate_run(f) == IF f.pc = "loop" THEN evaluate_run(evaluate_iter(f)) ELSE f

(***************************************************************************)
(* aerospace.rs: the window-manager gateway                                *)
(*                                                                         *)
(* A gateway environment `env` is what the external `aerospace` command    *)
(* answers during one call: env.workspaces is the result of                *)
(* `list-workspaces --all` (its output lines), env.windows[w] the result   *)
(* of `list-windows --workspace w --json` (the parsed array).              *)
(***************************************************************************)
RECURSIVE TrimmedNonEmpty(_)
TrimmedNonEmpty(lines) ==
    IF lines = <<>> THEN <<>>
    ELSE LET l == Trim(Head(lines))
         IN (IF l = <<>> THEN <<>> ELSE <<l>>) \o TrimmedNonEmpty(Tail(lines))

list_workspaces(env) ==
    IF env.workspaces.ok THEN Ok(TrimmedNonEmpty(env.workspaces.val))
    ELSE env.workspaces

TagWindows(ws, workspace) ==
    [i \in 1..Len(ws) |->
        [app_name |-> ws[i].app_name, window_id |-> ws[i].window_id,
         window_title |-> ws[i].window_title, workspace |-> workspace]]

list_windows_in_workspace(env, workspace) ==
    LET r == IF workspace \in DOMAIN env.windows THEN env.windows[workspace]
             ELSE Err("nonzero exit")
    IN IF r.ok THEN Ok(TagWindows(r.val, workspace)) ELSE r

RECURSIVE ListWindowsFrom_SkipsFailed(_, _, _)
\* As ListWindowsFrom, leaving out the workspaces whose query fails.
ListWindowsFrom_SkipsFailed(env, workspaces, all_windows) ==
    IF workspaces = <<>> THEN Ok(all_windows)
    ELSE LET r == list_windows_in_workspace(env, Head(workspaces))
         IN IF ~r.ok
            THEN ListWindowsFrom_SkipsFailed(env, Tail(workspaces), all_windows)
            ELSE ListWindowsFrom_SkipsFailed(env, Tail(workspaces),
                     all_windows \o TagWindows(r.val, Head(workspaces)))

RECURSIVE ListWindowsFrom(_, _, _)
ListWindowsFrom(env, workspaces, all_windows) ==
    IF workspaces = <<>> THEN Ok(all_windows)
    ELSE LET r == list_windows_in_workspace(env, Head(workspaces))
         IN IF ~r.ok THEN r
            ELSE ListWindowsFrom(env, Tail(workspaces),
                                 all_windows \o TagWindows(r.val, Head(workspaces)))

list_windows(env) ==
    LET workspaces == list_workspaces(env)
    IN IF ~workspaces.ok THEN workspaces
       ELSE ListWindowsFrom(env, workspaces.val, <<>>)

(***************************************************************************)
(* config.rs: the config store                                             *)
(*                                                                         *)
(* A file is [kind |-> "missing"], [kind |-> "garbage"] (bytes that are    *)
(* not a TOML document) or [kind |-> "toml", doc |-> d] where d is the     *)
(* parsed table: a record that may have a field `rules`, a sequence of     *)
(* tables.                                                                 *)
(***************************************************************************)
ExplicitPath == "~/my-rules.toml"

XdgPath == "$XDG/aerospace/rules.toml"

HomePath == "~/.aerospace-rules.toml"

Paths == {ExplicitPath, XdgPath, HomePath}

ParentDir(p) == IF p = XdgPath THEN "$XDG/aerospace" ELSE "~"

Exists(fs, p) == fs[p].kind # "missing"

\* serde's view of one [[rules]] table: a name, a type tag, and the fields
\* of the tagged variant.
RuleEntryValid(e) ==
    /\ "name" \in DOMAIN e
    /\ "type" \in DOMAIN e
    /\ \/ e.type = "window" /\ {"condition", "action"} \subseteq DOMAIN e
       \/ e.type = "empty-workspace" /\ {"workspace", "command"} \subseteq DOMAIN e

RuleOfEntry(e) ==
    IF e.type = "window"
    THEN [name |-> e.name, type |-> "window", condition |-> e.condition,
          action |-> e.action]
    ELSE [name |-> e.name, type |-> "empty-workspace", workspace |-> e.workspace,
          command |-> e.command]

\* As parse_config, keeping the rules that deserialize and leaving out the
\* others.
parse_config_SkipsInvalidRules(content) ==
    IF content.kind # "toml" \/ "rules" \notin DOMAIN content.doc THEN None
    ELSE LET es == SelectSeq(content.doc.rules, RuleEntryValid)
         IN Some([rules |-> [i \in 1..Len(es) |-> RuleOfEntry(es[i])]])

\* toml::from_str::<Config>
parse_config(content) ==
    IF content.kind # "toml" \/ "rules" \notin DOMAIN content.doc THEN None
    ELSE LET es == content.doc.rules
         IN IF \E i \in 1..Len(es) : ~RuleEntryValid(es[i]) THEN None
            ELSE Some([rules |-> [i \in 1..Len(es) |-> RuleOfEntry(es[i])]])

find_config_file(fs) ==
    IF Exists(fs, XdgPath) THEN Some(XdgPath)
    ELSE IF Exists(fs, HomePath) THEN Some(HomePath)
    ELSE None

load_config_from_path(fs, explicit_path) ==
    LET config_path == IF explicit_path.some THEN explicit_path
                       ELSE find_config_file(fs)
    IN IF ~config_path.some THEN None
       ELSE IF ~Exists(fs, config_path.val) THEN None
       ELSE parse_config(fs[config_path.val])

load_config(fs) == load_config_from_path(fs, None)

\* service.rs get_config_file_path, with HOME set
get_config_file_path(fs, explicit_path) ==
    IF explicit_path.some THEN explicit_path
    ELSE IF Exists(fs, XdgPath) THEN Some(XdgPath)
    ELSE Some(HomePath)

(***************************************************************************)
(* The values the environment supplies                                     *)
(***************************************************************************)
\* Clients that connect, timer ticks and file-system changes in one run.
NumClients == 2

MaxTicks == 1

MaxFsChanges == 1

WS1 == <<"1">>

WS99 == <<"99">>

Ghostty == [app_name |-> <<"Ghostty">>, window_id |-> 42,
            window_title |-> <<"foo", "bar">>]

IntelliJ == [app_name |-> <<"IntelliJ IDEA">>, window_id |-> 5,
             window_title |-> <<"bar">>]

MaximizeGhostty ==
    [name |-> "Test Rule", type |-> "window",
     condition |-> <<"app-name", " ", "=", " ", "'", "Ghostty", "'">>,
     action |-> <<"maximize">>]

MoveIntelliJ ==
    [name |-> "Move IntelliJ", type |-> "window",
     condition |-> <<"app-name", " ", "=", " ", "'", "IntelliJ IDEA", "'">>,
     action |-> <<"move-to-workspace", " ", "5">>]

\* A window rule whose condition names a field matches_condition rejects.
BadField ==
    [name |-> "Tall", type |-> "window",
     condition |-> <<"window-height", " ", ">", " ", "5">>,
     action |-> <<"maximize">>]

TerminalFor99 ==
    [name |-> "Terminal for Empty Workspace 99", type |-> "empty-workspace",
     workspace |-> WS99,
     command |-> <<"open", " ", "-a", " ", "Terminal">>]

Missing == [kind |-> "missing"]

Garbage == [kind |-> "garbage"]

Toml(entries) == [kind |-> "toml", doc |-> [rules |-> entries]]

DocA == Toml(<<MaximizeGhostty, TerminalFor99>>)

DocB == Toml(<<BadField, MoveIntelliJ>>)

DocEmpty == Toml(<<>>)

\* A file whose second [[rules]] table lacks its action.
DocHalf ==
    Toml(<<MaximizeGhostty,
           [name |-> "Broken", type |-> "window",
            condition |-> <<"app-name", " ", "=", " ", "x">>]>>)

\* What a change of the file system can put at a path.
FileContents == {Missing, Garbage, DocB, DocHalf}

OneFile(q, c) == [p \in Paths |-> IF p = q THEN c ELSE Missing]

\* How the service can be started: the --config argument and the files.
InitialSetups ==
    { [config_path |-> Some(ExplicitPath), fs |-> OneFile(ExplicitPath, DocA)],
      [config_path |-> None, fs |-> OneFile(HomePath, DocEmpty)] }

GatewayDown == [workspaces |-> Err("spawn_error"), windows |-> <<>>]

GatewayOne ==
    [workspaces |-> Ok(<<<<" ", "1">>, <<>>, <<"99", " ">>>>),
     windows |-> (WS1 :> Ok(<<Ghostty>>)) @@ (WS99 :> Ok(<<>>))]

GatewayTwo ==
    [workspaces |-> Ok(<<<<"1">>, <<"99">>>>),
     windows |-> (WS1 :> Ok(<<Ghostty, IntelliJ>>)) @@ (WS99 :> Ok(<<>>))]

\* The workspace list is answered, the window query of workspace 99 fails.
GatewayBroken99 ==
    [workspaces |-> Ok(<<<<"1">>, <<"99">>>>),
     windows |-> (WS1 :> Ok(<<Ghostty>>)) @@ (WS99 :> Err("nonzero"))]

GatewayBroken1 ==
    [workspaces |-> Ok(<<<<"1">>, <<"99">>>>),
     windows |-> (WS1 :> Err("malformed json")) @@ (WS99 :> Ok(<<>>))]

\* Windows in both workspaces, workspace 99 listed first.
GatewayBoth ==
    [workspaces |-> Ok(<<<<"99">>, <<"1">>>>),
     windows |-> (WS1 :> Ok(<<Ghostty>>)) @@ (WS99 :> Ok(<<IntelliJ>>))]

GatewayEnvs == {GatewayDown, GatewayOne, GatewayTwo, GatewayBroken99, GatewayBroken1,
                GatewayBoth}

\* The answers the gateway gives while the service runs.
ServiceGatewayEnvs == {GatewayDown, GatewayOne, GatewayBroken99}

(***************************************************************************)
(* lib.rs: Request, Response; what a client can send                       *)
(***************************************************************************)
GetWindows == [type |-> "GetWindows"]

GetConfig == [type |-> "GetConfig"]

Reload == [type |-> "Reload"]

EvaluateRules(w) == [type |-> "EvaluateRules", workspace |-> w]

Requests == {GetWindows, GetConfig, Reload, EvaluateRules(WS1), EvaluateRules(WS99)}

ResponseWindows(w) == [type |-> "Windows", windows |-> w]

ResponseConfig(c) == [type |-> "Config", config |-> c]

ResponseSuccess == [type |-> "Success"]

ResponseError(m) == [type |-> "Error", message |-> m]

RulesEvaluated(a) == [type |-> "RulesEvaluated", actions_performed |-> a]

NoConfigLoaded == "No config loaded"

RuleEvaluationFailed == "Rule evaluation failed"

\* handle_client's read buffer
BufferCap == 1024

\* A workspace name that makes the request longer than the buffer.
LongWorkspace == <<"a workspace name of 2000 bytes">>

\* What arrives in the handler's single read: `len` bytes that are the JSON
\* of `request`, or that are no JSON at all (request absent).
SocketInputs ==
    {[len |-> 0, request |-> None], [len |-> 7, request |-> None]}
        \cup {[len |-> 40, request |-> Some(r)] : r \in Requests}
        \cup {[len |-> 2000, request |-> Some(EvaluateRules(LongWorkspace))]}

\* As decode_request, with a buffer that holds a request of any length.
decode_request_Unbounded(input) ==
    IF ~input.request.some THEN Err("decode") ELSE Ok(input.request.val)

\* stream.read into the buffer, then serde_json::from_str: the bytes beyond
\* the buffer are cut off, and a cut JSON text does not decode.
decode_request(input) ==
    IF input.len > BufferCap \/ ~input.request.some THEN Err("decode")
    ELSE Ok(input.request.val)

(***************************************************************************)
(* service.rs: the state of the running service                            *)
(***************************************************************************)
VARIABLES
    state,       \* the ServiceState behind the RwLock
    readers,     \* the tasks holding a read guard
    writer,      \* the task holding the write guard (a set of at most one)
    waiters,     \* the RwLock's FIFO queue of tasks awaiting a guard
    pc,          \* where each task is
    rs,          \* the locals `windows` and `config` of a refresh in progress
    conn,        \* per connection: request, response, evaluation frame
    fs,          \* the files
    rx,          \* the watcher's channel of file-system events
    watch_path,  \* config_path_for_watching, fixed at startup
    ticks,       \* timer ticks so far
    fschanges,   \* file-system changes so far
    ev           \* the frame of a stand-alone evaluation

vars == <<state, readers, writer, waiters, pc, rs, conn, fs, rx, watch_path,
          ticks, fschanges, ev>>

MainTask == <<"main", 0>>

PeriodicTask == <<"periodic", 0>>

WatcherTask == <<"watcher", 0>>

ClientTasks == {<<"client", i>> : i \in 1..NumClients}

Tasks == {MainTask, PeriodicTask, WatcherTask} \cup ClientTasks

NoFrame == [pc |-> "none"]

NewConn == [request |-> None, response |-> None, frame |-> NoFrame,
            reads |-> 0, writes |-> 0, panicked |-> FALSE]

NoRefresh == [windows |-> <<>>, config |-> None]

\* main: ServiceState { windows: Vec::new(), config: None, config_path }
InitialState(config_path) ==
    [windows |-> <<>>, config |-> None, config_path |-> config_path]

ServiceInit ==
    /\ \E setup \in InitialSetups :
          /\ state = InitialState(setup.config_path)
          /\ fs = setup.fs
          /\ watch_path = get_config_file_path(setup.fs, setup.config_path)
    /\ readers = {}
    /\ writer = {}
    /\ waiters = <<>>
    /\ pc = [t \in Tasks |->
                IF t = MainTask THEN "rs_list"
                ELSE IF t \in ClientTasks THEN "unconnected"
                ELSE "unspawned"]
    /\ rs = [t \in Tasks |-> NoRefresh]
    /\ conn = [c \in ClientTasks |-> NewConn]
    /\ rx = <<>>
    /\ ticks = 0
    /\ fschanges = 0

Init == ServiceInit /\ ev = NoFrame

(***************************************************************************)
(* tokio::sync::RwLock: fair, first-in first-out                           *)
(***************************************************************************)
ReadPcs == {"rs_read", "rc_read", "gw_lock", "gc_lock", "er_lock"}

WritePcs == {"rs_write", "rc_write", "rm_write"}

AfterAcquire(l) ==
    CASE l = "rs_read" -> "rs_load"
      [] l = "rs_write" -> "rs_set_windows"
      [] l = "rc_read" -> "rc_load"
      [] l = "rc_write" -> "rc_set_config"
      [] l = "rm_write" -> "rm_set"
      [] l = "gw_lock" -> "gw_read"
      [] l = "gc_lock" -> "gc_read"
      [] l = "er_lock" -> "er_check"

\* As CanAcquire, with a write guard given while another one is out.
CanAcquire_WritersOverlap(l, rd, wr) ==
    IF l \in ReadPcs THEN wr = {} ELSE rd = {}

\* A read guard can be given while no write guard is out; a write guard
\* while no guard at all is out.
CanAcquire(l, rd, wr) ==
    IF l \in ReadPcs THEN wr = {} ELSE wr = {} /\ rd = {}

\* state.read().await / state.write().await by task t at lock point l, the
\* guards out being rd and wr: the guard is taken at once when nobody is
\* queued and it can be given, else t joins the queue.
LockRequest(t, l, rd, wr) ==
    IF waiters = <<>> /\ CanAcquire(l, rd, wr)
    THEN /\ readers' = IF l \in ReadPcs THEN rd \cup {t} ELSE rd
         /\ writer' = IF l \in WritePcs THEN {t} ELSE wr
         /\ waiters' = waiters
         /\ pc' = [pc EXCEPT ![t] = AfterAcquire(l)]
    ELSE /\ readers' = rd
         /\ writer' = wr
         /\ waiters' = Append(waiters, t)
         /\ pc' = [pc EXCEPT ![t] = l]

\* The task at the head of the queue is given its guard.
LockGrant(t) ==
    /\ waiters # <<>>
    /\ t = Head(waiters)
    /\ CanAcquire(pc[t], readers, writer)
    /\ readers' = IF pc[t] \in ReadPcs THEN readers \cup {t} ELSE readers
    /\ writer' = IF pc[t] \in WritePcs THEN {t} ELSE writer
    /\ waiters' = Tail(waiters)
    /\ pc' = [pc EXCEPT ![t] = AfterAcquire(pc[t])]
    /\ UNCHANGED <<state, rs, conn, fs, rx, watch_path, ticks, fschanges, ev>>

(***************************************************************************)
(* service.rs: refresh_state, called by main, periodic_refresh and the     *)
(* Reload arm of handle_client                                             *)
(***************************************************************************)
\* Where refresh_state's caller continues.
AfterRefresh(t) ==
    IF t = MainTask THEN "spawn" ELSE IF t = PeriodicTask THEN "tick" ELSE "write"

\* As RefreshReturn, with an Error for the Reload handler.
RefreshReturn_AnswersError(t) ==
    /\ pc' = [pc EXCEPT ![t] = AfterRefresh(t)]
    /\ conn' = IF t \in ClientTasks
               THEN [conn EXCEPT ![t].response = Some(ResponseError("Reload failed"))]
               ELSE conn

\* The Reload arm: Response::Success once refresh_state has returned.
RefreshReturn(t) ==
    /\ pc' = [pc EXCEPT ![t] = AfterRefresh(t)]
    /\ conn' = IF t \in ClientTasks
               THEN [conn EXCEPT ![t].response = Some(ResponseSuccess)]
               ELSE conn

\* The config a refresh loads while it holds the read guard.
LoadForState(s, f) ==
    IF s.config_path.some THEN load_config_from_path(f, s.config_path)
    ELSE load_config(f)

\* As RefreshList, with the window list emptied when the gateway fails.
RefreshList_ClearsOnFailure(t) ==
    /\ pc[t] = "rs_list"
    /\ \E env \in ServiceGatewayEnvs :
          LET windows == list_windows(env)
          IN IF windows.ok
             THEN /\ rs' = [rs EXCEPT ![t].windows = windows.val]
                  /\ LockRequest(t, "rs_read", readers, writer)
                  /\ UNCHANGED <<conn, state>>
             ELSE /\ RefreshReturn(t)
                  /\ state' = [state EXCEPT !.windows = <<>>]
                  /\ UNCHANGED <<rs, readers, writer, waiters>>
    /\ UNCHANGED <<fs, rx, watch_path, ticks, fschanges, ev>>

\* aerospace::list_windows() has ended: on Err the refresh returns with
\* nothing done, on Ok it goes on to state.read().await.
RefreshList(t) ==
    /\ pc[t] = "rs_list"
    /\ \E env \in ServiceGatewayEnvs :
          LET windows == list_windows(env)
          IN IF windows.ok
             THEN /\ rs' = [rs EXCEPT ![t].windows = windows.val]
                  /\ LockRequest(t, "rs_read", readers, writer)
                  /\ UNCHANGED conn
             ELSE /\ RefreshReturn(t)
                  /\ UNCHANGED <<rs, readers, writer, waiters>>
    /\ UNCHANGED <<state, fs, rx, watch_path, ticks, fschanges, ev>>

\* let config = { let state_guard = state.read().await; load ... }: the
\* file is read while the read guard is held.
RefreshLoad(t) ==
    /\ pc[t] = "rs_load"
    /\ rs' = [rs EXCEPT ![t].config = LoadForState(state, fs)]
    /\ pc' = [pc EXCEPT ![t] = "rs_loaded"]
    /\ UNCHANGED <<state, readers, writer, waiters, conn, fs, rx, watch_path,
                   ticks, fschanges, ev>>

\* As RefreshWriteRequest, with the read guard kept while the write guard
\* is awaited.
RefreshWriteRequest_KeepsReadGuard(t) ==
    /\ pc[t] = "rs_loaded"
    /\ LockRequest(t, "rs_write", readers, writer)
    /\ UNCHANGED <<state, rs, conn, fs, rx, watch_path, ticks, fschanges, ev>>

\* The read guard is dropped at the end of the block; then
\* state.write().await
RefreshWriteRequest(t) ==
    /\ pc[t] = "rs_loaded"
    /\ LockRequest(t, "rs_write", readers \ {t}, writer)
    /\ UNCHANGED <<state, rs, conn, fs, rx, watch_path, ticks, fschanges, ev>>

\* As RefreshSetWindows, with the write guard dropped after the first
\* assignment.
RefreshSetWindows_ReleasesGuard(t) ==
    /\ pc[t] = "rs_set_windows"
    /\ state' = [state EXCEPT !.windows = rs[t].windows]
    /\ writer' = writer \ {t}
    /\ pc' = [pc EXCEPT ![t] = "rs_set_config"]
    /\ UNCHANGED <<readers, waiters, rs, conn, fs, rx, watch_path, ticks,
                   fschanges, ev>>

\* state_guard.windows = windows;
RefreshSetWindows(t) ==
    /\ pc[t] = "rs_set_windows"
    /\ state' = [state EXCEPT !.windows = rs[t].windows]
    /\ pc' = [pc EXCEPT ![t] = "rs_set_config"]
    /\ UNCHANGED <<readers, writer, waiters, rs, conn, fs, rx, watch_path, ticks,
                   fschanges, ev>>

\* As RefreshSetConfig, keeping the loaded config when the new load failed.
RefreshSetConfig_KeepsOldOnFailure(t) ==
    /\ pc[t] = "rs_set_config"
    /\ state' = IF rs[t].config.some THEN [state EXCEPT !.config = rs[t].config]
                ELSE state
    /\ writer' = writer \ {t}
    /\ rs' = [rs EXCEPT ![t] = NoRefresh]
    /\ RefreshReturn(t)
    /\ UNCHANGED <<readers, waiters, fs, rx, watch_path, ticks, fschanges, ev>>

\* state_guard.config = config; and the guard is dropped at the return.
RefreshSetConfig(t) ==
    /\ pc[t] = "rs_set_config"
    /\ state' = [state EXCEPT !.config = rs[t].config]
    /\ writer' = writer \ {t}
    /\ rs' = [rs EXCEPT ![t] = NoRefresh]
    /\ RefreshReturn(t)
    /\ UNCHANGED <<readers, waiters, fs, rx, watch_path, ticks, fschanges, ev>>

(***************************************************************************)
(* service.rs: refresh_config_only and watch_config_file                   *)
(***************************************************************************)
\* The file is read while the read guard is held.
ConfigOnlyLoad(t) ==
    /\ pc[t] = "rc_load"
    /\ rs' = [rs EXCEPT ![t].config = LoadForState(state, fs)]
    /\ pc' = [pc EXCEPT ![t] = "rc_loaded"]
    /\ UNCHANGED <<state, readers, writer, waiters, conn, fs, rx, watch_path,
                   ticks, fschanges, ev>>

\* The read guard is dropped at the end of the block; then
\* state.write().await
ConfigOnlyWriteRequest(t) ==
    /\ pc[t] = "rc_loaded"
    /\ LockRequest(t, "rc_write", readers \ {t}, writer)
    /\ UNCHANGED <<state, rs, conn, fs, rx, watch_path, ticks, fschanges, ev>>

\* As ConfigOnlySet, with the window list emptied as well.
ConfigOnlySet_ClearsWindows(t) ==
    /\ pc[t] = "rc_set_config"
    /\ state' = [state EXCEPT !.config = rs[t].config, !.windows = <<>>]
    /\ writer' = writer \ {t}
    /\ rs' = [rs EXCEPT ![t] = NoRefresh]
    /\ pc' = [pc EXCEPT ![t] = "recv"]
    /\ UNCHANGED <<readers, waiters, conn, fs, rx, watch_path, ticks, fschanges, ev>>

\* state_guard.config = config; and the guard is dropped at the return.
ConfigOnlySet(t) ==
    /\ pc[t] = "rc_set_config"
    /\ state' = [state EXCEPT !.config = rs[t].config]
    /\ writer' = writer \ {t}
    /\ rs' = [rs EXCEPT ![t] = NoRefresh]
    /\ pc' = [pc EXCEPT ![t] = "recv"]
    /\ UNCHANGED <<readers, waiters, conn, fs, rx, watch_path, ticks, fschanges, ev>>

FileName(p) ==
    CASE p = ExplicitPath -> "my-rules.toml"
      [] p = XdgPath -> "rules.toml"
      [] p = HomePath -> ".aerospace-rules.toml"

relevant_event(event, config_path) ==
    \E path \in event.paths :
        path = config_path \/ FileName(path) = FileName(config_path)

\* As WatcherRecv, with refresh_config_only run for an event of any kind
\* but Remove.
WatcherRecv_ReloadsOnAnyKind(t) ==
    /\ t = WatcherTask
    /\ pc[t] = "recv"
    /\ rx # <<>>
    /\ rx' = Tail(rx)
    /\ LET event == Head(rx)
       IN IF ~relevant_event(event, watch_path.val)
          THEN UNCHANGED <<readers, writer, waiters, pc>>
          ELSE IF event.kind = "Remove"
          THEN LockRequest(t, "rm_write", readers, writer)
          ELSE LockRequest(t, "rc_read", readers, writer)
    /\ UNCHANGED <<state, rs, conn, fs, watch_path, ticks, fschanges, ev>>

\* One turn of `while let Some(event) = rx.recv().await`, up to the first
\* state.read().await of refresh_config_only or the state.write().await of
\* the Remove arm.
WatcherRecv(t) ==
    /\ t = WatcherTask
    /\ pc[t] = "recv"
    /\ rx # <<>>
    /\ rx' = Tail(rx)
    /\ LET event == Head(rx)
       IN IF ~relevant_event(event, watch_path.val)
          THEN UNCHANGED <<readers, writer, waiters, pc>>
          ELSE IF event.kind \in {"Create", "Modify"}
          THEN LockRequest(t, "rc_read", readers, writer)
          ELSE IF event.kind = "Remove"
          THEN LockRequest(t, "rm_write", readers, writer)
          ELSE UNCHANGED <<readers, writer, waiters, pc>>
    /\ UNCHANGED <<state, rs, conn, fs, watch_path, ticks, fschanges, ev>>

\* EventKind::Remove: state_guard.config = None;
WatcherRemoveSet(t) ==
    /\ pc[t] = "rm_set"
    /\ state' = [state EXCEPT !.config = None]
    /\ writer' = writer \ {t}
    /\ pc' = [pc EXCEPT ![t] = "recv"]
    /\ UNCHANGED <<readers, waiters, rs, conn, fs, rx, watch_path, ticks,
                   fschanges, ev>>

(***************************************************************************)
(* service.rs: periodic_refresh and main                                   *)
(***************************************************************************)
\* interval.tick().await
Tick(t) ==
    /\ t = PeriodicTask
    /\ pc[t] = "tick"
    /\ ticks < MaxTicks
    /\ ticks' = ticks + 1
    /\ pc' = [pc EXCEPT ![t] = "rs_list"]
    /\ UNCHANGED <<state, readers, writer, waiters, rs, conn, fs, rx, watch_path,
                   fschanges, ev>>

\* After the initial refresh: the watcher and the timer are spawned and the
\* listener is bound.
MainSpawn(t) ==
    /\ t = MainTask
    /\ pc[t] = "spawn"
    /\ pc' = [pc EXCEPT ![MainTask] = "accept",
                        ![WatcherTask] = IF watch_path.some THEN "recv" ELSE "unspawned",
                        ![PeriodicTask] = "tick"]
    /\ UNCHANGED <<state, readers, writer, waiters, rs, conn, fs, rx, watch_path,
                   ticks, fschanges, ev>>

\* As Accept, with the listener bound before the initial refresh.
Accept_BeforeInitialRefresh(c) ==
    /\ pc[c] = "unconnected"
    /\ \A d \in ClientTasks : d[2] < c[2] => pc[d] # "unconnected"
    /\ pc' = [pc EXCEPT ![c] = "read"]
    /\ UNCHANGED <<state, readers, writer, waiters, rs, conn, fs, rx, watch_path,
                   ticks, fschanges, ev>>

\* listener.accept() and tokio::spawn(handle_client); connections are
\* numbered in the order they are accepted.
Accept(c) ==
    /\ pc[MainTask] = "accept"
    /\ pc[c] = "unconnected"
    /\ \A d \in ClientTasks : d[2] < c[2] => pc[d] # "unconnected"
    /\ pc' = [pc EXCEPT ![c] = "read"]
    /\ UNCHANGED <<state, readers, writer, waiters, rs, conn, fs, rx, watch_path,
                   ticks, fschanges, ev>>

(***************************************************************************)
(* The file system changes, and notify reports it                          *)
(***************************************************************************)
EventKindOf(old, new) ==
    IF old.kind = "missing" THEN "Create"
    ELSE IF new.kind = "missing" THEN "Remove"
    ELSE "Modify"

\* The watcher watches the parent directory of watch_path, not recursively.
FsChange ==
    /\ fschanges < MaxFsChanges
    /\ fschanges' = fschanges + 1
    /\ \E p \in Paths, c \in FileContents :
          /\ c # fs[p]
          /\ fs' = [fs EXCEPT ![p] = c]
          /\ rx' = IF pc[WatcherTask] # "unspawned"
                      /\ ParentDir(p) = ParentDir(watch_path.val)
                   THEN Append(rx, [kind |-> EventKindOf(fs[p], c), paths |-> {p}])
                   ELSE rx
    /\ UNCHANGED <<state, readers, writer, waiters, pc, rs, conn, watch_path, ticks,
                   ev>>

\* A file of the watched directory is opened or read: notify reports an
\* event that is neither Create, Modify nor Remove, and no file changes.
FsAccess ==
    /\ fschanges < MaxFsChanges
    /\ pc[WatcherTask] # "unspawned"
    /\ fschanges' = fschanges + 1
    /\ \E p \in Paths :
          /\ ParentDir(p) = ParentDir(watch_path.val)
          /\ Exists(fs, p)
          /\ rx' = Append(rx, [kind |-> "Access", paths |-> {p}])
    /\ UNCHANGED <<state, readers, writer, waiters, pc, rs, conn, fs, watch_path,
                   ticks, ev>>

(***************************************************************************)
(* service.rs: handle_client                                               *)
(***************************************************************************)
\* stream.read(&mut buffer): zero bytes or an undecodable request end the
\* handler with nothing written; a decoded request is dispatched, up to the
\* first await of its arm.
SocketRead(c) ==
    /\ pc[c] = "read"
    /\ \E input \in SocketInputs :
          LET request == decode_request(input)
          IN IF input.len = 0 \/ ~request.ok
             THEN /\ pc' = [pc EXCEPT ![c] = "closed"]
                  /\ conn' = [conn EXCEPT ![c].reads = conn[c].reads + 1]
                  /\ UNCHANGED <<readers, writer, waiters>>
             ELSE /\ conn' = [conn EXCEPT ![c].reads = conn[c].reads + 1,
                                          ![c].request = Some(request.val)]
                  /\ CASE request.val.type = "GetWindows" ->
                              LockRequest(c, "gw_lock", readers, writer)
                       [] request.val.type = "GetConfig" ->
                              LockRequest(c, "gc_lock", readers, writer)
                       [] request.val.type = "EvaluateRules" ->
                              LockRequest(c, "er_lock", readers, writer)
                       [] request.val.type = "Reload" ->
                              /\ pc' = [pc EXCEPT ![c] = "rs_list"]
                              /\ UNCHANGED <<readers, writer, waiters>>
    /\ UNCHANGED <<state, rs, fs, rx, watch_path, ticks, fschanges, ev>>

\* As GetWindowsRead, answering with an Error while no window is known.
GetWindowsRead_FailsWhenEmpty(c) ==
    /\ pc[c] = "gw_read"
    /\ conn' = [conn EXCEPT ![c].response =
                   Some(IF state.windows = <<>> THEN ResponseError("No windows")
                        ELSE ResponseWindows(state.windows))]
    /\ readers' = readers \ {c}
    /\ pc' = [pc EXCEPT ![c] = "write"]
    /\ UNCHANGED <<state, writer, waiters, rs, fs, rx, watch_path, ticks, fschanges,
                   ev>>

\* Request::GetWindows
GetWindowsRead(c) ==
    /\ pc[c] = "gw_read"
    /\ conn' = [conn EXCEPT ![c].response = Some(ResponseWindows(state.windows))]
    /\ readers' = readers \ {c}
    /\ pc' = [pc EXCEPT ![c] = "write"]
    /\ UNCHANGED <<state, writer, waiters, rs, fs, rx, watch_path, ticks, fschanges,
                   ev>>

\* As GetConfigRead, answering with an empty Config when none is loaded.
GetConfigRead_DefaultConfig(c) ==
    /\ pc[c] = "gc_read"
    /\ conn' = [conn EXCEPT ![c].response =
                   Some(IF state.config.some THEN ResponseConfig(state.config.val)
                        ELSE ResponseConfig([rules |-> <<>>]))]
    /\ readers' = readers \ {c}
    /\ pc' = [pc EXCEPT ![c] = "write"]
    /\ UNCHANGED <<state, writer, waiters, rs, fs, rx, watch_path, ticks, fschanges,
                   ev>>

\* Request::GetConfig
GetConfigRead(c) ==
    /\ pc[c] = "gc_read"
    /\ conn' = [conn EXCEPT ![c].response =
                   Some(IF state.config.some THEN ResponseConfig(state.config.val)
                        ELSE ResponseError(NoConfigLoaded))]
    /\ readers' = readers \ {c}
    /\ pc' = [pc EXCEPT ![c] = "write"]
    /\ UNCHANGED <<state, writer, waiters, rs, fs, rx, watch_path, ticks, fschanges,
                   ev>>

\* Request::EvaluateRules, `match &state_guard.config`: without a config the
\* arm ends; with one, list_windows_in_workspace is started, the read guard
\* still held.
EvalCheck(c) ==
    /\ pc[c] = "er_check"
    /\ IF state.config.some
       THEN /\ pc' = [pc EXCEPT ![c] = "er_query"]
            /\ UNCHANGED <<conn, readers>>
       ELSE /\ conn' = [conn EXCEPT ![c].response = Some(ResponseError(NoConfigLoaded))]
            /\ readers' = readers \ {c}
            /\ pc' = [pc EXCEPT ![c] = "write"]
    /\ UNCHANGED <<state, writer, waiters, rs, fs, rx, watch_path, ticks, fschanges,
                   ev>>

\* Ok(actions) => RulesEvaluated { actions_performed: actions },
\* Err(e) => Error("Rule evaluation failed: {e}")
EvaluateResponse(result) ==
    IF result.ok THEN RulesEvaluated(result.val)
    ELSE ResponseError(RuleEvaluationFailed)

\* The end of the EvaluateRules arm: the response is built from the result
\* and state_guard is dropped.
EvalFinish(c, f) ==
    /\ conn' = [conn EXCEPT
                   ![c].frame = NoFrame,
                   ![c].response = Some(EvaluateResponse(f.result.val))]
    /\ readers' = readers \ {c}
    /\ pc' = [pc EXCEPT ![c] = "write"]

\* The evaluation either has returned or waits for an external command.
EvalContinue(c, f) ==
    IF f.pc = "done" THEN EvalFinish(c, f)
    ELSE /\ conn' = [conn EXCEPT ![c].frame = f]
         /\ pc' = [pc EXCEPT ![c] = "er_exec"]
         /\ UNCHANGED readers

\* .expect("foo") on a failed query: the task panics, its guard and its
\* stream are dropped in the unwinding.
EvalPanic(c) ==
    /\ conn' = [conn EXCEPT ![c].panicked = TRUE]
    /\ readers' = readers \ {c}
    /\ pc' = [pc EXCEPT ![c] = "closed"]

\* list_windows_in_workspace(workspace) has ended.
EvalQueryReturn(c) ==
    /\ pc[c] = "er_query"
    /\ \E env \in ServiceGatewayEnvs :
          LET workspace == conn[c].request.val.workspace
              r == list_windows_in_workspace(env, workspace)
          IN IF ~r.ok THEN EvalPanic(c)
             ELSE EvalContinue(c, evaluate_run(evaluate_begin(
                      workspace, state.windows, r.val, state.config.val)))
    /\ UNCHANGED <<state, writer, waiters, rs, fs, rx, watch_path, ticks, fschanges,
                   ev>>

\* The command of execute_action or execute_empty_workspace_command has ended.
EvalCommandReturn(c) ==
    /\ pc[c] = "er_exec"
    /\ \E outcome \in CmdOutcomes :
          EvalContinue(c, evaluate_run(evaluate_resume(conn[c].frame, outcome)))
    /\ UNCHANGED <<state, writer, waiters, rs, fs, rx, watch_path, ticks, fschanges,
                   ev>>

\* stream.write_all(response_json), then the handler returns and the stream
\* is dropped.
WriteResponse(c) ==
    /\ pc[c] = "write"
    /\ conn' = [conn EXCEPT ![c].writes = conn[c].writes + 1]
    /\ pc' = [pc EXCEPT ![c] = "closed"]
    /\ UNCHANGED <<state, readers, writer, waiters, rs, fs, rx, watch_path, ticks,
                   fschanges, ev>>

(***************************************************************************)
(* The service                                                             *)
(***************************************************************************)
Next ==
    \/ \E t \in Tasks :
          \/ LockGrant(t)
          \/ RefreshList(t)
          \/ RefreshLoad(t)
          \/ RefreshWriteRequest(t)
          \/ RefreshSetWindows(t)
          \/ RefreshSetConfig(t)
          \/ ConfigOnlyLoad(t)
          \/ ConfigOnlyWriteRequest(t)
          \/ ConfigOnlySet(t)
          \/ WatcherRecv(t)
          \/ WatcherRemoveSet(t)
          \/ Tick(t)
          \/ MainSpawn(t)
    \/ \E c \in ClientTasks :
          \/ Accept(c)
          \/ SocketRead(c)
          \/ GetWindowsRead(c)
          \/ GetConfigRead(c)
          \/ EvalCheck(c)
          \/ EvalQueryReturn(c)
          \/ EvalCommandReturn(c)
          \/ WriteResponse(c)
    \/ FsChange
    \/ FsAccess

Spec == Init /\ [][Next]_vars

(***************************************************************************)
(* evaluate_rules_for_workspace on its own: every input of the bounded     *)
(* sets, one loop pass or one command return per step                      *)
(***************************************************************************)
\* The longest rule list evaluated on its own.
MaxRules == 2

TitleHasBar ==
    [name |-> "Bar", type |-> "window",
     condition |-> <<"window-title", " ", "=", " ", "bar">>,
     action |-> <<"move-to-workspace", " ", "2">>]

IdAboveFive ==
    [name |-> "High ids", type |-> "window",
     condition |-> <<"window-id", " ", ">", " ", "5">>,
     action |-> <<"maximize">>]

\* A condition that splits into three parts.
TwoEquals ==
    [name |-> "Twice", type |-> "window",
     condition |-> <<"app-name", " ", "=", " ", "a", " ", "=", " ", "b">>,
     action |-> <<"maximize">>]

\* A number parse::<u32> rejects.
NotANumber ==
    [name |-> "NaN", type |-> "window",
     condition |-> <<"window-id", " ", ">", " ", "five">>,
     action |-> <<"maximize">>]

\* A condition that matches every window of workspace 1, with an action
\* execute_action does not know.
UnknownAction ==
    [name |-> "Close", type |-> "window",
     condition |-> <<"workspace", " ", "=", " ", "\"", "1", "\"">>,
     action |-> <<"close">>]

EmptyCommandFor99 ==
    [name |-> "Nothing", type |-> "empty-workspace", workspace |-> WS99,
     command |-> <<" ">>]

TerminalFor1 ==
    [name |-> "Terminal 1", type |-> "empty-workspace", workspace |-> WS1,
     command |-> <<"open", " ", "'", "-a", " ", "Terminal", "'">>]

\* A workspace id that equals "99" only after trimming.
TerminalForPadded99 ==
    [name |-> "Terminal 99 padded", type |-> "empty-workspace",
     workspace |-> <<"99", " ">>, command |-> <<"open">>]

\* The largest number `window-width > n` matches for.
WideWindows ==
    [name |-> "Wide", type |-> "window",
     condition |-> <<"window-width", " ", ">", " ", "1", "1", "9", "9">>,
     action |-> <<"maximize">>]

\* The smallest number `window-width > n` does not match for.
WiderWindows ==
    [name |-> "Wider", type |-> "window",
     condition |-> <<"window-width", " ", ">", " ", "1", "2", "0", "0">>,
     action |-> <<"maximize">>]

RulePool == {MaximizeGhostty, MoveIntelliJ, BadField, TerminalFor99, TitleHasBar,
             IdAboveFive, TwoEquals, NotANumber, UnknownAction, EmptyCommandFor99,
             TerminalFor1, TerminalForPadded99, WideWindows, WiderWindows}

RECURSIVE SeqsUpTo(_, _)
SeqsUpTo(S, n) ==
    IF n = 0 THEN {<<>>}
    ELSE LET shorter == SeqsUpTo(S, n - 1)
         IN shorter \cup {Append(q, x) : q \in shorter, x \in S}

EvalConfigs == {[rules |-> q] : q \in SeqsUpTo(RulePool, MaxRules)}

EvalWorkspaces == {WS1, WS99}

\* The snapshots the gateway can hand to the evaluation.
EvalSnapshots ==
    {list_windows_in_workspace(env, w).val :
        env \in {e \in GatewayEnvs : list_windows_in_workspace(e, WS1).ok},
        w \in {WS1}}
      \cup {<<>>}

\* The service around the evaluation is at rest.
ServiceAtRest ==
    /\ state = InitialState(None)
    /\ fs = OneFile(HomePath, Missing)
    /\ watch_path = Some(HomePath)
    /\ readers = {}
    /\ writer = {}
    /\ waiters = <<>>
    /\ pc = [t \in Tasks |-> "unspawned"]
    /\ rs = [t \in Tasks |-> NoRefresh]
    /\ conn = [c \in ClientTasks |-> NewConn]
    /\ rx = <<>>
    /\ ticks = 0
    /\ fschanges = 0

EvalInit ==
    /\ ServiceAtRest
    /\ \E workspace \in EvalWorkspaces, windows \in EvalSnapshots,
          config \in EvalConfigs :
          ev = evaluate_begin(workspace, <<>>, windows, config)

EvalIter ==
    /\ ev.pc = "loop"
    /\ ev' = evaluate_iter(ev)
    /\ UNCHANGED <<state, readers, writer, waiters, pc, rs, conn, fs, rx,
                   watch_path, ticks, fschanges>>

EvalResume ==
    /\ ev.pc \in {"exec_action", "exec_command"}
    /\ \E outcome \in CmdOutcomes : ev' = evaluate_resume(ev, outcome)
    /\ UNCHANGED <<state, readers, writer, waiters, pc, rs, conn, fs, rx,
                   watch_path, ticks, fschanges>>

EvalNext == EvalIter \/ EvalResume

EvalSpec == EvalInit /\ [][EvalNext]_vars

(***************************************************************************)
(* The service with the scheduling the runtime guarantees: every task that *)
(* can step does step, except that the client of connection 1 may never    *)
(* send its request and the external commands its handler starts may never *)
(* return.  The file system is not obliged to change.  The connections     *)
(* after the first have come and gone with nothing sent, so that the       *)
(* timer, the watcher and one handler (with its own refresh_state for      *)
(* Reload) contend for the lock.                                           *)
(***************************************************************************)
StalledClient == <<"client", 1>>

LiveInit ==
    /\ \E setup \in InitialSetups :
          /\ state = InitialState(setup.config_path)
          /\ fs = setup.fs
          /\ watch_path = get_config_file_path(setup.fs, setup.config_path)
    /\ readers = {}
    /\ writer = {}
    /\ waiters = <<>>
    /\ pc = [t \in Tasks |->
                IF t = MainTask THEN "rs_list"
                ELSE IF t = StalledClient THEN "unconnected"
                ELSE IF t \in ClientTasks THEN "closed"
                ELSE "unspawned"]
    /\ rs = [t \in Tasks |-> NoRefresh]
    /\ conn = [c \in ClientTasks |->
                 IF c = StalledClient THEN NewConn
                 ELSE [NewConn EXCEPT !.reads = 1]]
    /\ rx = <<>>
    /\ ticks = 0
    /\ fschanges = 0
    /\ ev = NoFrame

Fairness ==
    /\ \A t \in Tasks :
          /\ WF_vars(LockGrant(t))
          /\ WF_vars(RefreshLoad(t))
          /\ WF_vars(RefreshWriteRequest(t))
          /\ WF_vars(RefreshSetWindows(t))
          /\ WF_vars(RefreshSetConfig(t))
          /\ WF_vars(ConfigOnlyLoad(t))
          /\ WF_vars(ConfigOnlyWriteRequest(t))
          /\ WF_vars(ConfigOnlySet(t))
          /\ WF_vars(WatcherRecv(t))
          /\ WF_vars(WatcherRemoveSet(t))
          /\ WF_vars(Tick(t))
          /\ WF_vars(MainSpawn(t))
    /\ \A t \in Tasks \ {StalledClient} :
          WF_vars(RefreshList(t))
    /\ \A c \in ClientTasks :
          /\ WF_vars(GetWindowsRead(c))
          /\ WF_vars(GetConfigRead(c))
          /\ WF_vars(EvalCheck(c))
          /\ WF_vars(WriteResponse(c))
    /\ \A c \in ClientTasks \ {StalledClient} :
          /\ WF_vars(SocketRead(c))
          /\ WF_vars(EvalQueryReturn(c))
          /\ WF_vars(EvalCommandReturn(c))

FairSpec == LiveInit /\ [][Next]_vars /\ Fairness

(***************************************************************************)
(* The same service when nothing stalls: every external command ends and   *)
(* every client sends its request, connection 1 included.                  *)
(***************************************************************************)
LiveSpec ==
    /\ LiveInit
    /\ [][Next]_vars
    /\ Fairness
    /\ WF_vars(RefreshList(StalledClient))
    /\ WF_vars(SocketRead(StalledClient))
    /\ WF_vars(EvalQueryReturn(StalledClient))
    /\ WF_vars(EvalCommandReturn(StalledClient))

(***************************************************************************)
(* Claims                                                                  *)
(***************************************************************************)
\* A full refresh is between its two assignments: windows is new, config is
\* not yet.
Torn == \E t \in Tasks : pc[t] = "rs_set_config"

\* C1: atomic joint swap.  While a refresh_state has assigned `windows` and
\* not yet `config`, no task holds a read guard, so no reader handler
\* observes the new windows with the old rules; config is never assigned
\* before windows, so the reverse state does not exist.
C1_AtomicJointSwap ==
    /\ Torn => readers = {}
    /\ \A t \in Tasks : pc[t] \in {"rs_set_windows", "rs_set_config"} => writer = {t}

\* A refresh is between its assignments, about to replace a different
\* config, while a GetWindows handler waits for its read guard.
C1_Witness ==
    \E t \in Tasks, c \in ClientTasks :
        /\ pc[t] = "rs_set_config"
        /\ rs[t].config # state.config
        /\ pc[c] = "gw_lock"

\* C2: no reader handler holds the shared-state lock while an external
\* command runs: a handler inside the gateway query or inside a rule's
\* command holds no read guard.
C2_NoGuardDuringExternalCommand ==
    \A c \in ClientTasks : pc[c] \in {"er_query", "er_exec"} => c \notin readers

\* C3: a stalled handler blocks only itself.  Whatever connection 1 does,
\* every other started handler closes, every started refresh_state of the
\* timer returns and every started turn of the watcher ends.
C3_StallBlocksOnlyItself ==
    /\ \A c \in ClientTasks \ {StalledClient} :
          (pc[c] = "read") ~> (pc[c] = "closed")
    /\ (pc[PeriodicTask] = "rs_list") ~> (pc[PeriodicTask] = "tick")
    /\ (pc[WatcherTask] \in {"rc_read", "rm_write"}) ~> (pc[WatcherTask] = "recv")

\* C4: when list_windows fails in refresh_state, the call returns in that
\* step with the ServiceState and the refresh's locals as they were: nothing
\* is assigned and no config is loaded.
C4_FailedRefreshLeavesState ==
    [][\A t \in Tasks :
          (pc[t] = "rs_list" /\ pc'[t] = AfterRefresh(t))
              => (state' = state /\ rs' = rs /\ readers' = readers
                  /\ writer' = writer /\ waiters' = waiters)]_vars

\* The initial refresh has failed: the config file is there and unchanged,
\* yet nothing is loaded and the window list is still empty.
C4_Witness ==
    /\ pc[MainTask] = "spawn"
    /\ fschanges = 0
    /\ LoadForState(state, fs).some
    /\ ~state.config.some
    /\ state.windows = <<>>

\* C5: evaluate is total: whatever the rules, the call returns Ok.
C5_EvaluateNeverFails ==
    ev.pc = "done" => ev.result.val.ok

\* C6: a condition that fails to evaluate for a window counts as a
\* non-match of that window: the evaluation goes on with the next window of
\* the same rule.
C6_ConditionErrorIsNonMatch ==
    [][(/\ ev.pc = "loop"
        /\ ev.ri <= Len(ev.rules)
        /\ ev.rules[ev.ri].type = "window"
        /\ ev.wi <= Len(ev.windows)
        /\ ~matches_condition(ev.rules[ev.ri].condition, ev.windows[ev.wi]).ok)
          => ev' = NextWindow(ev)]_vars

\* C7: an EvaluateRules handler whose workspace query fails answers with an
\* Error response.
C7_QueryFailureAnswersError ==
    \A c \in ClientTasks :
        (pc[c] = "closed" /\ conn[c].panicked)
            => /\ conn[c].response.some
               /\ conn[c].response.val.type = "Error"
               /\ conn[c].writes = 1

\* C8: one request, one response: a handler that is done with a decoded
\* request has read once and written exactly one response.
C8_OneRequestOneResponse ==
    \A c \in ClientTasks :
        /\ conn[c].reads <= 1
        /\ conn[c].writes <= 1
        /\ (pc[c] = "closed" /\ conn[c].request.some)
              => (conn[c].reads = 1 /\ conn[c].writes = 1 /\ conn[c].response.some)

\* The step in which handler c reads the ServiceState for its request.
ReadsConfig(c) == pc[c] \in {"gc_read", "er_check"} /\ pc'[c] # pc[c]

C10_GetWindowsNeverFails ==
    /\ [](\A c \in ClientTasks :
            conn[c].request = Some(GetWindows) =>
                /\ pc[c] \in {"gw_lock", "gw_read", "write", "closed"}
                /\ conn[c].frame = NoFrame
                /\ pc[c] \in {"write", "closed"} =>
                      (conn[c].response.some /\ conn[c].response.val.type = "Windows")
                /\ pc[c] = "closed" => conn[c].writes = 1)
    /\ [][\A c \in ClientTasks :
            (pc[c] = "gw_read" /\ pc'[c] # pc[c]) =>
                /\ conn'[c].response = Some(ResponseWindows(state.windows))
                /\ state' = state
                /\ writer = {}
                /\ ~Torn]_vars

\* A GetWindows request was answered with the empty list the service starts
\* with, the initial refresh having failed.
C10_Witness ==
    \E c \in ClientTasks :
        /\ conn[c].request = Some(GetWindows)
        /\ pc[c] = "closed"
        /\ conn[c].writes = 1
        /\ conn[c].response = Some(ResponseWindows(<<>>))
        /\ ~state.config.some

\* C11: a Reload request is answered with Success and nothing else, and the
\* response appears in the step that ends the refresh_state it called: the
\* step in which list_windows failed, the state left as it was, or the step
\* that assigns config after windows under the write guard.  From then on
\* the handler holds and awaits no guard, and it closes having written once.
C11_ReloadSuccessAfterRefresh ==
    /\ [](\A c \in ClientTasks :
            conn[c].request = Some(Reload) =>
                /\ conn[c].response \in {None, Some(ResponseSuccess)}
                /\ conn[c].response.some <=> pc[c] \in {"write", "closed"}
                /\ pc[c] \in {"write", "closed"} =>
                      /\ c \notin readers \cup writer
                      /\ \A i \in 1..Len(waiters) : waiters[i] # c
                      /\ rs[c] = NoRefresh
                /\ pc[c] = "closed" => conn[c].writes = 1)
    /\ [][\A c \in ClientTasks :
            (conn[c].request = Some(Reload) /\ conn'[c].response # conn[c].response) =>
                \/ pc[c] = "rs_list" /\ state' = state
                \/ /\ pc[c] = "rs_set_config"
                   /\ state'.windows = rs[c].windows
                   /\ state'.config = rs[c].config]_vars

\* The first handler saw the empty window list the failed initial refresh
\* left, the timer has not fired, and the second handler's Reload was
\* answered after its refresh installed windows.
C11_Witness ==
    \E c, d \in ClientTasks :
        /\ conn[c].response = Some(ResponseWindows(<<>>))
        /\ ticks = 0
        /\ conn[d].request = Some(Reload)
        /\ conn[d].response = Some(ResponseSuccess)
        /\ pc[d] = "closed"
        /\ state.windows # <<>>

\* The rules of frame f that an empty snapshot of f.workspace fires.
FiringEmptyRules(f) ==
    {i \in 1..Len(f.rules) :
        /\ f.rules[i].type = "empty-workspace"
        /\ f.rules[i].workspace = f.workspace}

\* C12: an empty-workspace rule fires exactly when the snapshot is empty and
\* its workspace id equals the evaluated one as a string.  Reached with
\* both, the rule starts its command (or records that the command cannot be
\* started); reached otherwise, it starts nothing and appends nothing.  With
\* an empty snapshot every such rule is reached: the call returns one
\* outcome per rule that fires.
C12_EmptyRuleFiresIffEmptyAndSame ==
    /\ [][(/\ ev.pc = "loop"
           /\ ev.ri <= Len(ev.rules)
           /\ ev.rules[ev.ri].type = "empty-workspace")
             => IF ev.windows = <<>> /\ ev.rules[ev.ri].workspace = ev.workspace
                THEN \/ /\ ev'.pc = "exec_command"
                        /\ Len(ev'.log) = Len(ev.log) + 1
                        /\ ev'.actions_performed = ev.actions_performed
                     \/ /\ ev'.pc = "loop"
                        /\ ev'.ri = ev.ri + 1
                        /\ Len(ev'.actions_performed) = Len(ev.actions_performed) + 1
                        /\ ev'.log = ev.log
                ELSE ev' = NextRule(ev)]_vars
    /\ []((ev.pc = "done" /\ ev.windows = <<>>) =>
             /\ ev.result.val.ok
             /\ Len(ev.result.val.val) = Cardinality(FiringEmptyRules(ev)))

\* Workspace "99" is empty: the rule for "99 " (with a blank) did not fire,
\* the rule for "99" did.
C12_Witness ==
    /\ ev.pc = "done"
    /\ ev.workspace = WS99
    /\ ev.windows = <<>>
    /\ ev.rules = <<TerminalForPadded99, TerminalFor99>>
    /\ ev.actions_performed = <<ExecutedOutcome(TerminalFor99)>>
    /\ Len(ev.log) = 1

\* The (rule, window) pairs of frame f in the order of the two loops: rule
\* by rule, and window by window within a rule.
PairsInOrder(f) ==
    [k \in 1..(Len(f.rules) * Len(f.windows)) |->
        [rule |-> f.rules[((k - 1) \div Len(f.windows)) + 1],
         window |-> f.windows[((k - 1) % Len(f.windows)) + 1]]]

\* A pair whose condition matches and whose action execute_action runs.
PairFires(p) ==
    /\ p.rule.type = "window"
    /\ matches_condition(p.rule.condition, p.window).ok
    /\ matches_condition(p.rule.condition, p.window).val
    /\ action_command(p.rule.action, p.window).some

\* The commands of the pairs that fire, in order.
MatchingCommands(f) ==
    LET firing == SelectSeq(PairsInOrder(f), PairFires)
    IN [k \in 1..Len(firing) |->
           action_command(firing[k].rule.action, firing[k].window).val]

C14_AsymmetricFailureRecording ==
    /\ ev.pc = "exec_action" =>
          \A outcome \in CmdOutcomes :
              evaluate_resume(ev, outcome) =
                  IF outcome = "success"
                  THEN NextWindow([ev EXCEPT !.actions_performed =
                           Append(ev.actions_performed,
                                  AppliedOutcome(ev.rules[ev.ri], ev.windows[ev.wi]))])
                  ELSE NextWindow(ev)
    /\ ev.pc = "exec_command" =>
          \A outcome \in CmdOutcomes :
              LET g == evaluate_resume(ev, outcome)
              IN /\ g.pc = "loop" /\ g.ri = ev.ri + 1
                 /\ Len(g.actions_performed) = Len(ev.actions_performed) + 1
                 /\ SubSeq(g.actions_performed, 1, Len(ev.actions_performed))
                        = ev.actions_performed
                 /\ g.actions_performed[Len(g.actions_performed)].kind =
                        IF outcome = "success" THEN "Executed empty workspace rule"
                        ELSE "Failed to execute empty workspace command"
    /\ (ev.pc = "loop" /\ ev.ri <= Len(ev.rules)) =>
          LET rule == ev.rules[ev.ri]
              g == evaluate_iter(ev)
          IN /\ (/\ rule.type = "window"
                 /\ ev.wi <= Len(ev.windows)
                 /\ matches_condition(rule.condition, ev.windows[ev.wi]).ok
                 /\ matches_condition(rule.condition, ev.windows[ev.wi]).val
                 /\ ~action_command(rule.action, ev.windows[ev.wi]).some)
                    => g = NextWindow(ev)
             /\ (/\ rule.type = "empty-workspace"
                 /\ ev.windows = <<>>
                 /\ rule.workspace = ev.workspace
                 /\ ~empty_workspace_command(rule.command).ok)
                    => /\ g.pc = "loop" /\ g.ri = ev.ri + 1 /\ g.log = ev.log
                       /\ g.actions_performed =
                              Append(ev.actions_performed,
                                     FailedOutcome(rule, empty_workspace_command(rule.command).err))

\* An evaluation ran two window actions and returned one outcome: one of the
\* two commands failed and left no entry.
C14_Witness ==
    /\ ev.pc = "done"
    /\ ev.windows # <<>>
    /\ ev.result.val.ok
    /\ Len(ev.log) = 2
    /\ Len(ev.result.val.val) = 1

\* Values ServiceState.windows can hold.
CachedWindowLists ==
    {<<>>} \cup {list_windows(env).val : env \in {e \in GatewayEnvs : list_windows(e).ok}}

\* C15: EvaluateRules does not depend on the cached windows.  What the
\* handler does when its workspace query has answered is fixed by the
\* workspace, the answer and the config: it is what the evaluation gives
\* for every value the cached window list could have, and the windows
\* evaluated are those of the answer.
C15_IndependentOfCachedWindows ==
    [][\A c \in ClientTasks :
          (pc[c] = "er_query" /\ pc'[c] \in {"er_exec", "write"}) =>
              \E env \in ServiceGatewayEnvs :
                  LET workspace == conn[c].request.val.workspace
                      r == list_windows_in_workspace(env, workspace)
                  IN /\ r.ok
                     /\ \A w \in CachedWindowLists :
                           LET f == evaluate_run(evaluate_begin(
                                        workspace, w, r.val, state.config.val))
                           IN /\ f.windows = r.val
                              /\ IF f.pc = "done"
                                 THEN /\ pc'[c] = "write"
                                      /\ conn'[c].response =
                                           Some(IF f.result.val.ok
                                                THEN RulesEvaluated(f.result.val.val)
                                                ELSE ResponseError(RuleEvaluationFailed))
                                 ELSE /\ pc'[c] = "er_exec"
                                      /\ conn'[c].frame = f]_vars

\* The cached list holds a window, yet the rule for the empty workspace 99
\* was executed: the fresh answer for workspace 99 was empty.
C15_Witness ==
    \E c \in ClientTasks :
        /\ pc[c] = "closed"
        /\ conn[c].request = Some(EvaluateRules(WS99))
        /\ conn[c].response = Some(RulesEvaluated(<<ExecutedOutcome(TerminalFor99)>>))
        /\ state.windows # <<>>

\* The contents the config files have at some time of a run.
FileVersions ==
    FileContents \cup {setup.fs[p] : setup \in InitialSetups, p \in Paths}

\* config is the whole of what `content` declares: every [[rules]] table,
\* in order, each one deserialized.
IsCompleteLoadOf(config, content) ==
    /\ content.kind = "toml"
    /\ Len(config.rules) = Len(content.doc.rules)
    /\ \A i \in 1..Len(config.rules) :
          /\ RuleEntryValid(content.doc.rules[i])
          /\ config.rules[i] = RuleOfEntry(content.doc.rules[i])

\* C16: config is absent or the complete RuleSet of one version of one
\* config file, in the ServiceState as in the locals of a refresh.  It
\* changes only by the assignment of what one load returned, or to None by
\* the Remove arm, and a load reads one file of the file system as it is in
\* that step.
C16_RulesAbsentOrOneCompleteLoad ==
    /\ [](/\ state.config.some =>
                \E content \in FileVersions : IsCompleteLoadOf(state.config.val, content)
          /\ \A t \in Tasks : rs[t].config.some =>
                \E content \in FileVersions : IsCompleteLoadOf(rs[t].config.val, content))
    /\ [][/\ state'.config # state.config =>
                \E t \in Tasks :
                    \/ /\ pc[t] \in {"rs_set_config", "rc_set_config"}
                       /\ state'.config = rs[t].config
                    \/ pc[t] = "rm_set" /\ state'.config = None
          /\ \A t \in Tasks :
                (rs'[t].config # rs[t].config /\ rs'[t].config.some) =>
                    \E p \in Paths : /\ fs[p].kind = "toml"
                                     /\ IsCompleteLoadOf(rs'[t].config.val, fs[p])]_vars

\* A client was answered with the rules of the first file; the file was then
\* replaced by one whose second rule does not deserialize, the watcher has
\* reloaded, and no rule of either file is installed.
C16_Witness ==
    /\ watch_path = Some(ExplicitPath)
    /\ fs[ExplicitPath] = DocHalf
    /\ pc[WatcherTask] = "recv"
    /\ rx = <<>>
    /\ ticks = 0
    /\ ~state.config.some
    /\ \E c \in ClientTasks :
          conn[c].response =
              Some(ResponseConfig([rules |-> <<MaximizeGhostty, TerminalFor99>>]))

\* Where a task is inside refresh_config_only.
ConfigOnlyPcs == {"rc_read", "rc_load", "rc_loaded", "rc_write",
                  "rc_set_config"}

\* C17: refresh_config_only replaces only config.  None of its steps
\* changes windows or config_path, config changes in its last step alone,
\* to what it loaded; the watcher that runs it never is at a gateway query
\* and never holds a window list.
C17_ConfigOnlyRefreshFrame ==
    /\ [](/\ pc[WatcherTask] \in ConfigOnlyPcs \cup {"unspawned", "recv", "rm_write", "rm_set"}
          /\ rs[WatcherTask].windows = <<>>)
    /\ [][(pc[WatcherTask] \in ConfigOnlyPcs /\ pc'[WatcherTask] # pc[WatcherTask]) =>
             /\ state'.windows = state.windows
             /\ state'.config_path = state.config_path
             /\ IF pc[WatcherTask] = "rc_set_config"
                THEN state'.config = rs[WatcherTask].config /\ pc'[WatcherTask] = "recv"
                ELSE state'.config = state.config]_vars

\* The only client was answered with the rules of the first file, the timer
\* has not fired; the rules are now those of the changed file and the window
\* list is still there.
C17_Witness ==
    \E c \in ClientTasks :
        /\ conn[c].response =
              Some(ResponseConfig([rules |-> <<MaximizeGhostty, TerminalFor99>>]))
        /\ \A d \in ClientTasks \ {c} : pc[d] = "unconnected"
        /\ ticks = 0
        /\ pc[WatcherTask] = "recv"
        /\ state.config = Some([rules |-> <<BadField, MoveIntelliJ>>])
        /\ state.windows # <<>>

\* Where a task holds the write guard.
WriteHeldPcs == {"rs_set_windows", "rs_set_config", "rc_set_config", "rm_set"}

\* Where a task holds a read guard.
ReadHeldPcs == {"rs_load", "rs_loaded", "rc_load", "rc_loaded", "gw_read",
                "gc_read", "er_check", "er_query", "er_exec"}

\* C18: writers exclude others only for the swap.  A task holds the write
\* guard exactly while it is at its assignments, so not during
\* list_windows, nor while it awaits a guard, nor while it loads the
\* config (which it does under a read guard); at most one task is there, and
\* no read guard is out meanwhile.
C18_WriteGuardOnlyForTheSwap ==
    /\ \A t \in Tasks : t \in writer <=> pc[t] \in WriteHeldPcs
    /\ \A t \in Tasks : t \in readers <=> pc[t] \in ReadHeldPcs
    /\ Cardinality({t \in Tasks : pc[t] \in WriteHeldPcs}) <= 1
    /\ writer # {} => readers = {}

\* The timer's refresh is loading the config, a Reload's refresh waits for
\* list_windows, and meanwhile a GetConfig handler holds its read guard.
C18_Witness ==
    \E c, d \in ClientTasks :
        /\ pc[PeriodicTask] = "rs_load"
        /\ pc[d] = "rs_list"
        /\ pc[c] = "gc_read"
        /\ {PeriodicTask, c} \subseteq readers
        /\ writer = {}

\* C19: startup ordering.  The ServiceState starts with no windows and no
\* config; until main has got through its initial refresh_state, with
\* nothing of it left in progress, no connection is accepted, no request
\* read, and neither the watcher nor the timer runs.
C19_InitialRefreshBeforeAccept ==
    /\ state.windows = <<>> /\ ~state.config.some
    /\ [](/\ pc[MainTask] # "accept" =>
                /\ \A c \in ClientTasks : pc[c] = "unconnected" /\ conn[c] = NewConn
                /\ pc[PeriodicTask] = "unspawned"
                /\ pc[WatcherTask] = "unspawned"
          /\ pc[MainTask] \in {"spawn", "accept"} =>
                /\ MainTask \notin readers \cup writer
                /\ \A i \in 1..Len(waiters) : waiters[i] # MainTask
                /\ rs[MainTask] = NoRefresh)
    /\ [][pc'[MainTask] # pc[MainTask] =>
             /\ pc[MainTask] # "accept"
             /\ pc'[MainTask] = "spawn" =>
                   \/ pc[MainTask] = "rs_list" /\ state' = state
                   \/ pc[MainTask] = "rs_set_config"]_vars

\* The first connection is accepted, nothing else has run since the start,
\* and the windows of the initial refresh are installed.
C19_Witness ==
    \E c \in ClientTasks :
        /\ pc[c] = "read"
        /\ \A d \in ClientTasks \ {c} : pc[d] = "unconnected"
        /\ ticks = 0
        /\ fschanges = 0
        /\ state.windows # <<>>
        /\ state.config.some

\* C20: a request that does not decode closes its connection and nothing
\* else.  A request longer than the buffer is never dispatched; a handler
\* that ends without a request has read once, written nothing, started
\* nothing and holds no guard; the step that ends it changes neither the
\* ServiceState nor the lock nor any other task; whatever is dispatched was
\* decoded.
C20_DecodeFailureClosesOnlyItself ==
    /\ [](\A c \in ClientTasks :
            /\ conn[c].request # Some(EvaluateRules(LongWorkspace))
            /\ (pc[c] = "closed" /\ ~conn[c].request.some) =>
                  /\ conn[c].reads = 1
                  /\ conn[c].writes = 0
                  /\ ~conn[c].response.some
                  /\ conn[c].frame = NoFrame
                  /\ ~conn[c].panicked
                  /\ c \notin readers \cup writer
                  /\ \A i \in 1..Len(waiters) : waiters[i] # c)
    /\ [][\A c \in ClientTasks :
            /\ (pc[c] = "read" /\ pc'[c] = "closed") =>
                  /\ state' = state
                  /\ <<readers', writer', waiters', rs'>> = <<readers, writer, waiters, rs>>
                  /\ \A t \in Tasks \ {c} : pc'[t] = pc[t]
                  /\ \A d \in ClientTasks \ {c} : conn'[d] = conn[d]
            /\ (pc[c] = "read" /\ pc'[c] \notin {"read", "closed"}) =>
                  conn'[c].request.some]_vars

\* The first connection ended without a request; the second one, accepted
\* after it, was served.
C20_Witness ==
    \E c, d \in ClientTasks :
        /\ c[2] < d[2]
        /\ pc[c] = "closed"
        /\ ~conn[c].request.some
        /\ pc[d] = "closed"
        /\ conn[d].response.some
        /\ conn[d].writes = 1

\* C21: a config that cannot be read or parsed is no error.  Loading a
\* missing or unparsable file gives None; the load step of a refresh keeps
\* what the load returned, None included, and the refresh goes on to its
\* write guard; its assignment installs that value whatever was loaded
\* before, refresh_state having assigned its new windows; no response is
\* produced by these steps except the Success of Reload.
C21_FailedLoadInstallsAbsent ==
    /\ [](\A p \in Paths :
            fs[p].kind \in {"missing", "garbage"} =>
                load_config_from_path(fs, Some(p)) = None)
    /\ [][\A t \in Tasks :
            /\ (pc[t] \in {"rs_load", "rc_load"} /\ pc'[t] # pc[t]) =>
                  /\ rs'[t].config = LoadForState(state, fs)
                  /\ pc'[t] \in {"rs_loaded", "rc_loaded"}
                  /\ conn' = conn
            /\ (pc[t] \in {"rs_loaded", "rc_loaded"} /\ pc'[t] # pc[t]) =>
                  /\ rs' = rs
                  /\ pc'[t] \in {"rs_write", "rs_set_windows", "rc_write", "rc_set_config"}
                  /\ conn' = conn
            /\ (pc[t] = "rs_set_config" /\ pc'[t] # pc[t]) =>
                  /\ state'.config = rs[t].config
                  /\ state'.windows = rs[t].windows
                  /\ \A c \in ClientTasks :
                        conn'[c].response \in {conn[c].response, Some(ResponseSuccess)}
            /\ (pc[t] = "rc_set_config" /\ pc'[t] # pc[t]) =>
                  /\ state'.config = rs[t].config
                  /\ conn' = conn]_vars

\* A client was answered with the rules of the file; the file now holds no
\* TOML, a refresh has run since, and the rules are absent while the window
\* list is there.
C21_Witness ==
    /\ fs[ExplicitPath] = Garbage
    /\ ~state.config.some
    /\ state.windows # <<>>
    /\ \A t \in Tasks : rs[t] = NoRefresh
    /\ \E c \in ClientTasks :
          conn[c].response =
              Some(ResponseConfig([rules |-> <<MaximizeGhostty, TerminalFor99>>]))

RECURSIVE WindowsOfAll(_, _)
\* The windows the gateway reports for `workspaces`, workspace after
\* workspace, each window with the id of the workspace it was asked for.
WindowsOfAll(env, workspaces) ==
    IF workspaces = <<>> THEN <<>>
    ELSE LET w == Head(workspaces)
             ws == env.windows[w].val
         IN [i \in 1..Len(ws) |->
                [app_name |-> ws[i].app_name, window_id |-> ws[i].window_id,
                 window_title |-> ws[i].window_title, workspace |-> w]]
              \o WindowsOfAll(env, Tail(workspaces))

\* list_windows has to fail with `env`: the workspace list fails, or the
\* window query of one of the listed workspaces does.
SomeQueryFails(env) ==
    \/ ~env.workspaces.ok
    \/ \E i \in 1..Len(list_workspaces(env).val) :
          LET w == list_workspaces(env).val[i]
          IN w \notin DOMAIN env.windows \/ ~env.windows[w].ok

\* C22: list_windows is fail-fast.  With every answer the gateway can give,
\* it returns an error and no list when any query fails, and else the
\* windows of all workspaces in the order of the workspace list, tagged
\* with the workspace queried; a refresh_state takes exactly that result,
\* returning with nothing kept on the error.
C22_ListWindowsFailFast ==
    /\ \A env \in GatewayEnvs :
          IF SomeQueryFails(env)
          THEN ~list_windows(env).ok /\ "val" \notin DOMAIN list_windows(env)
          ELSE list_windows(env) = Ok(WindowsOfAll(env, list_workspaces(env).val))
    /\ [][\A t \in Tasks :
            (pc[t] = "rs_list" /\ pc'[t] # pc[t]) =>
                \E env \in ServiceGatewayEnvs :
                    IF SomeQueryFails(env)
                    THEN pc'[t] = AfterRefresh(t) /\ rs' = rs
                    ELSE /\ pc'[t] \in {"rs_read", "rs_load"}
                         /\ rs'[t].windows =
                                WindowsOfAll(env, list_workspaces(env).val)]_vars

\* A refresh installed the list of a gateway whose workspace list has blank
\* lines and padded ids: one window, tagged with the trimmed id.
C22_Witness ==
    /\ state.windows =
          <<[app_name |-> <<"Ghostty">>, window_id |-> 42,
             window_title |-> <<"foo", "bar">>, workspace |-> WS1]>>
    /\ list_windows(GatewayBoth).ok
    /\ Len(list_windows(GatewayBoth).val) = 2
    /\ list_windows(GatewayBoth).val[1].workspace = WS99
    /\ ~list_windows(GatewayBroken99).ok

\* The windows conditions are matched against: the two of the gateway, one
\* whose name contains Ghostty's and whose title is part of Ghostty's, one
\* that differs from Ghostty in case only, and one with empty strings.
MatchedWindows ==
    {[app_name |-> w.app_name, window_id |-> w.window_id,
      window_title |-> w.window_title, workspace |-> ws] :
        w \in {Ghostty, IntelliJ,
               [app_name |-> <<"Ghostty", " ", "2">>, window_id |-> 43,
                window_title |-> <<"foo">>],
               [app_name |-> <<"ghostty">>, window_id |-> 41,
                window_title |-> <<"Foo", "bar", "!">>],
               [app_name |-> <<>>, window_id |-> 0, window_title |-> <<>>]},
        ws \in {WS1, WS99}}

\* The well-formed conditions: a field, the operator, and the value (bare
\* or in quotes of either kind) or the number (bare, with a plus sign or
\* with a leading zero) as the rule file writes it.
WellFormedConditions ==
    LET values == {<<"Ghostty">>, <<"ghostty">>, <<"Ghostty", " ", "2">>,
                   <<"IntelliJ IDEA">>, <<"bar">>, <<"foo", "bar">>, <<"foo">>,
                   <<"1">>, <<"99">>, <<>>}
        Quoted(v) == {v, <<"'">> \o v \o <<"'">>, <<"\"">> \o v \o <<"\"">>}
        numbers == {0, 4, 5, 6, 41, 42, 43, 1199, 1200, 1201}
        Written(n) == LET d == IF n = 0 THEN <<"0">> ELSE ToDigits(n)
                      IN {d, <<"+">> \o d, <<"0">> \o d}
    IN UNION {{[field |-> f, value |-> v, text |-> <<f>> \o SepEq \o q] :
                  q \in Quoted(v)} :
              f \in {"app-id", "app-name", "window-title", "workspace"},
              v \in values}
         \cup
       UNION {{[field |-> f, number |-> n, text |-> <<f>> \o SepGt \o d] :
                  d \in Written(n)} :
              f \in {"window-id", "window-width"}, n \in numbers}

\* Whether the condition matches the window, field by field.
Reference(c, window) ==
    CASE c.field \in {"app-id", "app-name"} -> window.app_name = c.value
      [] c.field = "window-title" ->
             \E i \in 0..Len(window.window_title) :
                /\ i + Len(c.value) <= Len(window.window_title)
                /\ \A j \in 1..Len(c.value) : window.window_title[i + j] = c.value[j]
      [] c.field = "workspace" -> window.workspace = c.value
      [] c.field = "window-id" -> window.window_id > c.number
      [] c.field = "window-width" -> c.number < 1200

\* C23: matches_condition agrees with the reference on every well-formed
\* condition and every window: app-name and app-id compare the whole name,
\* case-sensitively; window-title looks for the value inside the title;
\* workspace compares the tagged workspace id; window-id > n holds for ids
\* strictly above n; window-width > n holds exactly for n < 1200, whatever
\* the window.  During an evaluation, a well-formed condition never ends
\* the call, and the action of the rule is started for exactly the windows
\* the reference matches.
C23_ConditionMatchesReference ==
    /\ \A window \in MatchedWindows, c \in WellFormedConditions :
          matches_condition(c.text, window) = Ok(Reference(c, window))
    /\ [][(/\ ev.pc = "loop"
           /\ ev.ri <= Len(ev.rules)
           /\ ev.rules[ev.ri].type = "window"
           /\ ev.windows # <<>>
           /\ ev.wi <= Len(ev.windows)) =>
            LET rule == ev.rules[ev.ri]
                window == ev.windows[ev.wi]
            IN \A c \in WellFormedConditions :
                  c.text = rule.condition =>
                     /\ ev'.pc # "done"
                     /\ ev'.pc = "exec_action" <=>
                          (Reference(c, window) /\ action_command(rule.action, window).some)]_ev

\* An evaluation of Ghostty (id 42) and IntelliJ (id 5) ran the action of
\* `window-id > 5` for Ghostty only and that of `window-width > 1199` for
\* both.
C23_Witness ==
    /\ ev.rules = <<IdAboveFive, WideWindows>>
    /\ Len(ev.windows) = 2
    /\ ev.windows[2].window_id = 5
    /\ ev.pc = "done"
    /\ ev.result = Some(Ok(<<AppliedOutcome(IdAboveFive, ev.windows[1]),
                            AppliedOutcome(WideWindows, ev.windows[1]),
                            AppliedOutcome(WideWindows, ev.windows[2])>>))

\* C24: with an empty snapshot a window rule is skipped whole.  The pass
\* over it goes to the next rule with nothing started, nothing recorded and
\* the call not ended, whatever its condition and action are; the call ends
\* with a result, no window action was started in it, no outcome is that of
\* a window rule, and there are as many outcomes as empty-workspace rules
\* for the evaluated workspace.
C24_EmptySnapshotSkipsWindowRules ==
    /\ [][(/\ ev.pc = "loop"
           /\ ev.ri <= Len(ev.rules)
           /\ ev.rules[ev.ri].type = "window"
           /\ ev.windows = <<>>)
             => /\ ev'.pc = "loop"
                /\ ev'.ri = ev.ri + 1
                /\ ev'.log = ev.log
                /\ ev'.actions_performed = ev.actions_performed
                /\ ev'.result = None]_ev
    /\ [](ev.windows = <<>> =>
             /\ \A i \in 1..Len(ev.log) :
                   ~(/\ ev.log[i].program = "aerospace"
                     /\ ev.log[i].args # <<>>
                     /\ Head(ev.log[i].args) \in {"move", "fullscreen"})
             /\ \A i \in 1..Len(ev.actions_performed) :
                   /\ ev.actions_performed[i].kind # "Applied"
                   /\ \E j \in FiringEmptyRules(ev) :
                         ev.rules[j].name = ev.actions_performed[i].rule
             /\ ev.pc = "done" =>
                   /\ ev.result.val.ok
                   /\ ev.result.val.val = ev.actions_performed
                   /\ Len(ev.actions_performed) =
                         Cardinality({j \in 1..Len(ev.rules) :
                                         /\ ev.rules[j].type = "empty-workspace"
                                         /\ ev.rules[j].workspace = ev.workspace}))

\* Workspace "99" is empty: the window rule with the unknown field ended
\* nothing, and the call returned the one outcome of the rule for "99".
C24_Witness ==
    /\ ev.pc = "done"
    /\ ev.workspace = WS99
    /\ ev.windows = <<>>
    /\ ev.rules = <<BadField, TerminalFor99>>
    /\ ev.result = Some(Ok(<<ExecutedOutcome(TerminalFor99)>>))

\* C25: the config never goes back to an older version of the file.  When
\* the file has changed, the state holds the rules loaded from the file as
\* it is now and the watcher has no event left to handle, a refresh_state
\* that read the file earlier does not replace those rules at its
\* assignment: the config is still the load of the current file afterwards.
C25_ConfigNeverRegresses ==
    [][\A t \in Tasks :
          (/\ pc[t] = "rs_set_config"
           /\ pc'[t] # pc[t]
           /\ fschanges > 0
           /\ rx = <<>>
           /\ pc[WatcherTask] = "recv"
           /\ state.config.some
           /\ state.config = LoadForState(state, fs))
             => state'.config = LoadForState(state', fs')]_vars

\* C26: what an EvaluateRules request has done is reported.  When the
\* evaluation has returned, the response built from its result is
\* RulesEvaluated and holds the outcome of every action and command that
\* ran with success, in order; a response that is an Error comes from a
\* call in which no action ran with success.
C26_ExecutedActionsAreReported ==
    ev.pc = "done" =>
        LET response == EvaluateResponse(ev.result.val)
            succeeded == {i \in 1..Len(ev.actions_performed) :
                             ev.actions_performed[i].kind \in
                                 {"Applied", "Executed empty workspace rule"}}
        IN succeeded # {} =>
              /\ response.type = "RulesEvaluated"
              /\ \A i \in succeeded :
                    /\ i <= Len(response.actions_performed)
                    /\ response.actions_performed[i] = ev.actions_performed[i]

\* Where a task is in none of refresh_state, refresh_config_only, the
\* Remove arm and handle_client.
RestPcs == {"unspawned", "unconnected", "spawn", "accept", "tick", "recv", "closed"}

\* C27: no deadlock on the lock of the shared state.  A task that awaits a
\* guard holds none, and one that awaits the write guard is not a reader; a
\* task at rest holds and awaits nothing; and when every external command
\* ends and every client sends its request, each task that has started a
\* refresh_state, a refresh_config_only, the Remove arm or a handler comes
\* to rest again.
C27_NoDeadlock ==
    /\ [](LET waiting == {waiters[i] : i \in 1..Len(waiters)}
          IN \A t \in Tasks :
                /\ t \in waiting => t \notin readers \cup writer
                /\ pc[t] \in WritePcs => t \in waiting /\ t \notin readers
                /\ pc[t] \in RestPcs => t \notin readers \cup writer \cup waiting)
    /\ (\E t \in Tasks : pc[t] \notin RestPcs) ~> (\A t \in Tasks : pc[t] \in RestPcs)

\* The refresh of the timer and the watcher both await the write guard
\* while a handler holds its read guard during the command of a rule.
C27_Witness ==
    /\ \E c \in ClientTasks : pc[c] = "er_exec" /\ c \in readers
    /\ pc[PeriodicTask] = "rs_write"
    /\ pc[WatcherTask] \in {"rc_write", "rm_write"}
    /\ Len(waiters) >= 2

\* C28: what the watcher does with an event.  For a Remove event of the
\* config file it awaits the write guard and, holding it, makes the config
\* absent: nothing is loaded, the windows and config_path stay.  For a
\* Create or Modify event of that file it starts refresh_config_only.  An
\* event of another kind, or of a file with another name, is dropped with
\* nothing else changed.
C28_WatcherEventFrame ==
    /\ [][(rx # <<>> /\ rx' = Tail(rx)) =>
            LET event == Head(rx)
                ours == \E path \in event.paths :
                           \/ path = watch_path.val
                           \/ FileName(path) = FileName(watch_path.val)
            IN /\ state' = state /\ rs' = rs /\ conn' = conn /\ fs' = fs
               /\ \A t \in Tasks \ {WatcherTask} : pc'[t] = pc[t]
               /\ IF ours /\ event.kind = "Remove"
                  THEN pc'[WatcherTask] \in {"rm_write", "rm_set"}
                  ELSE IF ours /\ event.kind \in {"Create", "Modify"}
                  THEN pc'[WatcherTask] \in {"rc_read", "rc_load"}
                  ELSE /\ pc' = pc
                       /\ readers' = readers
                       /\ writer' = writer
                       /\ waiters' = waiters]_vars
    /\ [][(pc[WatcherTask] = "rm_set" /\ pc'[WatcherTask] # "rm_set") =>
            /\ writer = {WatcherTask}
            /\ readers = {}
            /\ state' = [windows |-> state.windows, config |-> None,
                         config_path |-> state.config_path]
            /\ writer' = {}
            /\ pc'[WatcherTask] = "recv"
            /\ rs' = rs /\ conn' = conn /\ fs' = fs]_vars
    /\ [](pc[WatcherTask] \in {"rm_write", "rm_set"} => rs[WatcherTask] = NoRefresh)

\* The config file was removed after a client had been answered with its
\* rules; no refresh_state has run since the first, and the watcher has made
\* the config absent and left the windows.
C28_Witness ==
    /\ \E c \in ClientTasks :
          conn[c].response = Some(ResponseConfig([rules |-> <<MaximizeGhostty, TerminalFor99>>]))
    /\ \A c \in ClientTasks : conn[c].request # Some(Reload)
    /\ ticks = 0
    /\ fs[ExplicitPath] = Missing
    /\ pc[WatcherTask] = "recv"
    /\ rx = <<>>
    /\ ~state.config.some
    /\ state.windows # <<>>
    /\ state.config_path = Some(ExplicitPath)

====
